---- MODULE Spec2Model ----
(***************************************************************************)
(* OneRoster mock server: main (src/main.go), NewDataStore and the lookup  *)
(* handlers (src/datastore.go).                                            *)
(*                                                                         *)
(* uuid.New().String() is a fresh token: the k-th call returns the token k *)
(* (spec 4.1: "any collision-free unique-string generator qualifies").     *)
(* time.Now() is a logical clock that is positive and never goes back; the *)
(* zero time.Time is 0.  fmt.Sprintf(f, i) is the pair <<f, i>>.           *)
(* A URL path is the sequence of its segments.  A response is its status,  *)
(* its Content-Type and its body; a JSON body is the key of the one-entry  *)
(* map the handler encodes, the JSON kind of its value and the value.      *)
(* The middlewares registered before the authentication middleware        *)
(* (main.go 47-61) are third-party code and pass the request on.           *)
(***************************************************************************)
EXTENDS Integers, Sequences, FiniteSets

VARIABLES
  pc,         \* main's position: main, the loops of NewDataStore, return, router, serving, exit
  i,          \* the loop variable of the running generation loop
  ds,         \* NewDataStore's local ds while it runs
  Store,      \* handlers.Store, the DataStore the handlers read
  uuidCalls,  \* number of uuid.New() calls so far
  clock,      \* the next value of time.Now()
  calls,      \* number of calls of NewDataStore so far
  wpc,        \* per server goroutine: idle, or done with its response written
  req,        \* per server goroutine: the request it is serving
  resp,       \* per server goroutine: the response it wrote
  ran         \* per server goroutine: the handler the router ran for the request

genVars == <<pc, i, ds, Store, uuidCalls, clock, calls>>
srvVars == <<wpc, req, resp, ran>>
vars == <<pc, i, ds, Store, uuidCalls, clock, calls, wpc, req, resp, ran>>

\* ---- bounds of the model ----
MaxWorkers == 2   \* server goroutines that may run at the same time
MaxProbe == 1     \* ids a client takes from each end of a listed collection

\* ---- program constants: the loop limits of NewDataStore ----
NumOrgs == 10
NumStudents == 1000
NumTeachers == 250
NumSessions == 4
NumCourses == 50
NumClasses == 500

\* ---- types (datastore.go 11-126) ----
ZeroTime == 0

BaseModel(id, status, t) ==
  [sourcedId |-> id, status |-> status, dateLastModified |-> t]

GUIDRef(prefix, id, type) ==
  [href |-> <<prefix, id>>, sourcedId |-> id, type |-> type]

EmptyDataStore ==
  [Orgs |-> <<>>, Users |-> <<>>, Courses |-> <<>>, Classes |-> <<>>,
   Enrollments |-> <<>>, AcademicSessions |-> <<>>, Categories |-> <<>>]

\* Go's ds.X[i % len(ds.X)] on a 1-indexed sequence
AtMod(s, k) == s[(k % Len(s)) + 1]

Sprintf(f, k) == <<f, k>>

NewOrg(k, id, t) ==
  [base |-> BaseModel(id, "active", t),
   name |-> Sprintf("School #%d", k),
   type |-> "school",
   identifier |-> Sprintf("SCH%03d", k)]

\* faulty variant: the index counts from 0
StudentOrgFromZero(orgs, k) == AtMod(orgs, k - 1)

StudentOrg(orgs, k) == AtMod(orgs, k)

NewStudent(k, id, t, orgs) ==
  LET school == StudentOrg(orgs, k) IN
  [base |-> BaseModel(id, "active", t),
   username |-> Sprintf("student%d", k),
   enabledUser |-> TRUE,
   givenName |-> "Student",
   familyName |-> Sprintf("User%d", k),
   role |-> "student",
   identifier |-> Sprintf("STU%04d", k),
   email |-> Sprintf("student%d@example.com", k),
   orgs |-> <<GUIDRef("/orgs/", school.base.sourcedId, "org")>>]

TeacherOrg(orgs, k) == AtMod(orgs, k)

NewTeacher(k, id, t, orgs) ==
  LET school == TeacherOrg(orgs, k) IN
  [base |-> BaseModel(id, "active", t),
   username |-> Sprintf("teacher%d", k),
   enabledUser |-> TRUE,
   givenName |-> "Teacher",
   familyName |-> Sprintf("User%d", k),
   role |-> "teacher",
   identifier |-> Sprintf("TCH%04d", k),
   email |-> Sprintf("teacher%d@example.com", k),
   orgs |-> <<GUIDRef("/orgs/", school.base.sourcedId, "org")>>]

NewSession(k, id, t) ==
  [base |-> BaseModel(id, "active", t),
   title |-> Sprintf("Fall Semester 202%d", k + 4),
   type |-> "term",
   startDate |-> Sprintf("202%d-09-01", k + 4),
   endDate |-> Sprintf("202%d-12-20", k + 4),
   schoolYear |-> Sprintf("202%d", k + 4)]

NewCourse(k, id, t) ==
  [base |-> BaseModel(id, "active", t),
   title |-> Sprintf("Course %d", k),
   courseCode |-> Sprintf("CRS%03d", k),
   subjects |-> <<"General">>]

ClassCourse(courses, k) == AtMod(courses, k)

\* faulty variant: the school index wraps one short of the org count
ClassSchoolShortCycle(orgs, k) == orgs[(k % (Len(orgs) - 1)) + 1]

ClassSchool(orgs, k) == AtMod(orgs, k)

\* faulty variant: every class is put in the first term
ClassTermFirst(sessions, k) == sessions[1]

ClassTerm(sessions, k) == AtMod(sessions, k)

\* faulty variant: the school reference carries the class's own id
NewClassOwnId(k, id, t, d) ==
  LET course == ClassCourse(d.Courses, k)
      term == ClassTerm(d.AcademicSessions, k)
  IN
  [base |-> BaseModel(id, "active", t),
   title |-> course.title,
   classCode |-> <<"%s-S%d", course.courseCode, k>>,
   classType |-> "scheduled",
   course |-> GUIDRef("/courses/", course.base.sourcedId, "course"),
   school |-> GUIDRef("/schools/", id, "school"),
   terms |-> <<GUIDRef("/terms/", term.base.sourcedId, "term")>>,
   grades |-> <<"10">>,
   subjects |-> <<"General">>]

NewClass(k, id, t, d) ==
  LET course == ClassCourse(d.Courses, k)
      school == ClassSchool(d.Orgs, k)
      term == ClassTerm(d.AcademicSessions, k)
  IN
  [base |-> BaseModel(id, "active", t),
   title |-> course.title,
   classCode |-> <<"%s-S%d", course.courseCode, k>>,
   classType |-> "scheduled",
   course |-> GUIDRef("/courses/", course.base.sourcedId, "course"),
   school |-> GUIDRef("/schools/", school.base.sourcedId, "school"),
   terms |-> <<GUIDRef("/terms/", term.base.sourcedId, "term")>>,
   grades |-> <<"10">>,
   subjects |-> <<"General">>]

NewCategory(id, title, weight) ==
  [base |-> BaseModel(id, "", ZeroTime), title |-> title, weight |-> weight]

\* ---- HTTP layer ----
Workers == 1..MaxWorkers

\* http.Header: each name maps to its list of values; Get returns the first or ""
HeaderGet(headers, name) == IF Len(headers[name]) = 0 THEN "" ELSE headers[name][1]

NoRequest == [path |-> <<>>, headers |-> [Authorization |-> <<>>]]

\* json.NewEncoder(w).Encode: a nil slice encodes as null, a record as an object
EncodeList(key, s) ==
  [key |-> key, kind |-> IF Len(s) = 0 THEN "null" ELSE "array", items |-> s]
EncodeObject(key, r) == [key |-> key, kind |-> "object", items |-> <<r>>]
EncodeError(msg) == [key |-> "error", kind |-> "string", items |-> <<msg>>]
PlainText(msg) == [key |-> "", kind |-> "text", items |-> <<msg>>]

NoResponse == [status |-> 0, contentType |-> "", body |-> PlainText("")]

StatusOK == 200
StatusUnauthorized == 401
StatusNotFound == 404

\* a handler's outcome: the response it wrote and the DataStore it leaves behind
writeJSON(store, status, data) ==
  [store |-> store,
   resp |-> [status |-> status, contentType |-> "application/json", body |-> data]]

\* for k, x := range s { if <k is a hit> { ...; return } }: the first hit, if any
First(s, hits) ==
  IF hits = {} THEN <<>>
  ELSE <<s[CHOOSE k \in hits : \A j \in hits : k <= j]>>

\* the positions of s whose record has the sourcedId id
WithId(s, id) == {k \in 1..Len(s) : s[k].base.sourcedId = id}

\* the body of a get-by-id handler once its loop has found hit, or nothing
GetById(store, hit, key, notFound) ==
  IF Len(hit) > 0
    THEN writeJSON(store, StatusOK, EncodeObject(key, hit[1]))
    ELSE writeJSON(store, StatusNotFound, EncodeError(notFound))

getOrgs(store) == writeJSON(store, StatusOK, EncodeList("orgs", store.Orgs))

getOrg(store, id) ==
  GetById(store, First(store.Orgs, WithId(store.Orgs, id)),
          "org", "Org not found")

getSchools(store) ==
  writeJSON(store, StatusOK,
    EncodeList("orgs", SelectSeq(store.Orgs, LAMBDA org : org.type = "school")))

getSchool(store, id) ==
  GetById(store,
          First(store.Orgs, {k \in WithId(store.Orgs, id) : store.Orgs[k].type = "school"}),
          "org", "School not found")

getUsers(store) == writeJSON(store, StatusOK, EncodeList("users", store.Users))

\* faulty variant: the scan starts at the second record
getUserSkipsFirst(store, id) ==
  GetById(store, First(Tail(store.Users), WithId(Tail(store.Users), id)),
          "user", "User not found")

getUser(store, id) ==
  GetById(store, First(store.Users, WithId(store.Users, id)),
          "user", "User not found")

\* faulty variant: the matches are collected in the store's own array (Users[:0])
getTeachersInPlace(store) ==
  LET teachers == SelectSeq(store.Users, LAMBDA user : user.role = "teacher")
      users == teachers \o SubSeq(store.Users, Len(teachers) + 1, Len(store.Users))
  IN writeJSON([store EXCEPT !.Users = users], StatusOK, EncodeList("users", teachers))

\* faulty variant: each match is put in front of the earlier ones
getTeachersReversed(store) ==
  LET teachers == SelectSeq(store.Users, LAMBDA user : user.role = "teacher") IN
  writeJSON(store, StatusOK,
    EncodeList("users",
      [k \in 1..Len(teachers) |-> teachers[Len(teachers) + 1 - k]]))

getTeachers(store) ==
  writeJSON(store, StatusOK,
    EncodeList("users", SelectSeq(store.Users, LAMBDA user : user.role = "teacher")))

\* faulty variant: the role is not looked at
getTeacherAnyRole(store, id) ==
  GetById(store, First(store.Users, WithId(store.Users, id)),
          "user", "Teacher not found")

getTeacher(store, id) ==
  GetById(store,
          First(store.Users, {k \in WithId(store.Users, id) : store.Users[k].role = "teacher"}),
          "user", "Teacher not found")

getStudents(store) ==
  writeJSON(store, StatusOK,
    EncodeList("users", SelectSeq(store.Users, LAMBDA user : user.role = "student")))

getStudent(store, id) ==
  GetById(store,
          First(store.Users, {k \in WithId(store.Users, id) : store.Users[k].role = "student"}),
          "user", "Student not found")

getCourses(store) == writeJSON(store, StatusOK, EncodeList("courses", store.Courses))

getCourse(store, id) ==
  GetById(store, First(store.Courses, WithId(store.Courses, id)),
          "course", "Course not found")

getClasses(store) == writeJSON(store, StatusOK, EncodeList("classes", store.Classes))

getClass(store, id) ==
  GetById(store, First(store.Classes, WithId(store.Classes, id)),
          "class", "Class not found")

\* faulty variant: the categories are scoped to the class, an unknown class id
\* is answered Not-Found
getCategoriesForKnownClass(store, id) ==
  IF WithId(store.Classes, id) = {}
    THEN writeJSON(store, StatusNotFound, EncodeError("Class not found"))
    ELSE writeJSON(store, StatusOK, EncodeList("categories", store.Categories))

getCategoriesForClass(store, id) ==
  writeJSON(store, StatusOK, EncodeList("categories", store.Categories))

getEnrollments(store) ==
  writeJSON(store, StatusOK, EncodeList("enrollments", store.Enrollments))

getEnrollment(store, id) ==
  GetById(store, First(store.Enrollments, WithId(store.Enrollments, id)),
          "enrollment", "Enrollment not found")

getTerms(store) ==
  writeJSON(store, StatusOK,
    EncodeList("academicSessions",
      SelectSeq(store.AcademicSessions, LAMBDA session : session.type = "term")))

getTerm(store, id) ==
  GetById(store,
          First(store.AcademicSessions,
                {k \in WithId(store.AcademicSessions, id) :
                   store.AcademicSessions[k].type = "term"}),
          "academicSession", "Term not found")

getAcademicSessions(store) ==
  writeJSON(store, StatusOK, EncodeList("academicSessions", store.AcademicSessions))

getAcademicSession(store, id) ==
  GetById(store, First(store.AcademicSessions, WithId(store.AcademicSessions, id)),
          "academicSession", "Academic Session not found")

getGradingPeriods(store) ==
  writeJSON(store, StatusOK,
    EncodeList("academicSessions",
      SelectSeq(store.AcademicSessions,
                 LAMBDA session : session.type = "gradingPeriod")))

getGradingPeriod(store, id) ==
  GetById(store,
          First(store.AcademicSessions,
                {k \in WithId(store.AcademicSessions, id) :
                   store.AcademicSessions[k].type = "gradingPeriod"}),
          "academicSession", "Grading Period not found")

\* httpSwagger.WrapHandler serves the documentation and never reads the store
httpSwagger(store) ==
  [store |-> store,
   resp |-> [status |-> StatusOK, contentType |-> "text/html",
             body |-> PlainText("swagger-ui")]]

\* the router's answer to a path no pattern matches
routerNotFound(store) ==
  [store |-> store,
   resp |-> [status |-> StatusNotFound,
             contentType |-> "text/plain; charset=utf-8",
             body |-> PlainText("404 page not found")]]

\* ---- the route table (main.go 81-117); a path is its list of segments ----
BasePath == <<"ims", "oneroster", "v1p1">>

ListRoutes ==
  [orgs |-> "getOrgs", schools |-> "getSchools", users |-> "getUsers",
   teachers |-> "getTeachers", students |-> "getStudents",
   courses |-> "getCourses", classes |-> "getClasses",
   enrollments |-> "getEnrollments", terms |-> "getTerms",
   academicSessions |-> "getAcademicSessions",
   gradingPeriods |-> "getGradingPeriods"]

IdRoutes ==
  [orgs |-> "getOrg", schools |-> "getSchool", users |-> "getUser",
   teachers |-> "getTeacher", students |-> "getStudent",
   courses |-> "getCourse", classes |-> "getClass",
   enrollments |-> "getEnrollment", terms |-> "getTerm",
   academicSessions |-> "getAcademicSession",
   gradingPeriods |-> "getGradingPeriod"]

\* strings.HasPrefix(r.URL.Path, "/swagger/")
HasSwaggerPrefix(path) == Len(path) >= 2 /\ path[1] = "swagger"

NoRoute == [handler |-> "none", params |-> <<>>]

Route(path) ==
  IF Len(path) > 3 /\ SubSeq(path, 1, 3) = BasePath
    THEN LET tail == SubSeq(path, 4, Len(path)) IN
         IF Len(tail) = 1 /\ tail[1] \in DOMAIN ListRoutes
           THEN [handler |-> ListRoutes[tail[1]], params |-> <<>>]
         ELSE IF Len(tail) = 2 /\ tail[1] \in DOMAIN IdRoutes
           THEN [handler |-> IdRoutes[tail[1]], params |-> <<tail[2]>>]
         ELSE IF Len(tail) = 3 /\ tail[1] = "classes" /\ tail[3] = "categories"
           THEN [handler |-> "getCategoriesForClass", params |-> <<tail[2]>>]
         ELSE NoRoute
  ELSE IF HasSwaggerPrefix(path)
    THEN [handler |-> "httpSwagger", params |-> <<>>]
  ELSE NoRoute

LookupHandlers ==
  {ListRoutes[c] : c \in DOMAIN ListRoutes} \cup {IdRoutes[c] : c \in DOMAIN IdRoutes}
    \cup {"getCategoriesForClass"}

\* chi.URLParam(r, "id")
URLParam(params) == params[1]

Run(handler, store, params) ==
  CASE handler = "getOrgs" -> getOrgs(store)
    [] handler = "getOrg" -> getOrg(store, URLParam(params))
    [] handler = "getSchools" -> getSchools(store)
    [] handler = "getSchool" -> getSchool(store, URLParam(params))
    [] handler = "getUsers" -> getUsers(store)
    [] handler = "getUser" -> getUser(store, URLParam(params))
    [] handler = "getTeachers" -> getTeachers(store)
    [] handler = "getTeacher" -> getTeacher(store, URLParam(params))
    [] handler = "getStudents" -> getStudents(store)
    [] handler = "getStudent" -> getStudent(store, URLParam(params))
    [] handler = "getCourses" -> getCourses(store)
    [] handler = "getCourse" -> getCourse(store, URLParam(params))
    [] handler = "getClasses" -> getClasses(store)
    [] handler = "getClass" -> getClass(store, URLParam(params))
    [] handler = "getCategoriesForClass" -> getCategoriesForClass(store, URLParam(params))
    [] handler = "getEnrollments" -> getEnrollments(store)
    [] handler = "getEnrollment" -> getEnrollment(store, URLParam(params))
    [] handler = "getTerms" -> getTerms(store)
    [] handler = "getTerm" -> getTerm(store, URLParam(params))
    [] handler = "getAcademicSessions" -> getAcademicSessions(store)
    [] handler = "getAcademicSession" -> getAcademicSession(store, URLParam(params))
    [] handler = "getGradingPeriods" -> getGradingPeriods(store)
    [] handler = "getGradingPeriod" -> getGradingPeriod(store, URLParam(params))
    [] handler = "httpSwagger" -> httpSwagger(store)
    [] OTHER -> routerNotFound(store)

\* ---- the mock authentication middleware (main.go 64-78) ----
\* faulty variant: only the presence of the header is looked at, not its value
AuthPassesIfPresent(r) ==
  \/ HasSwaggerPrefix(r.path)
  \/ Len(r.headers["Authorization"]) > 0

AuthPasses(r) ==
  \/ HasSwaggerPrefix(r.path)
  \/ HeaderGet(r.headers, "Authorization") # ""

Unauthorized ==
  [status |-> StatusUnauthorized, contentType |-> "text/plain; charset=utf-8",
   body |-> PlainText("Unauthorized: Missing Authorization header")]

\* ---- the requests clients send ----
\* a token no uuid.New() call has returned
FreshId == uuidCalls + 1

\* the ids at both ends of a listed collection
Ends(s) ==
  {s[k].base.sourcedId :
     k \in {j \in 1..Len(s) : j <= MaxProbe \/ j > Len(s) - MaxProbe}}

ProbeIds ==
  Ends(Store.Orgs) \cup Ends(Store.Users) \cup Ends(Store.Courses)
    \cup Ends(Store.Classes) \cup Ends(Store.Enrollments)
    \cup Ends(Store.AcademicSessions) \cup Ends(Store.Categories) \cup {FreshId}

ApiPaths(ids) ==
  {BasePath \o <<c>> : c \in DOMAIN ListRoutes}
    \cup {BasePath \o <<c, id>> : c \in DOMAIN IdRoutes, id \in ids}
    \cup {BasePath \o <<"classes", id, "categories">> : id \in ids}

Paths ==
  ApiPaths(ProbeIds) \cup {<<"swagger", "index.html">>, <<"swagger">>, <<"health">>}

AuthHeaders == {<<>>, <<"">>, <<"x">>}

Requests == {[path |-> p, headers |-> [Authorization |-> a]] : p \in Paths, a \in AuthHeaders}

\* requests of concurrent clients: authorized reads of the Users collection, by
\* the id of its first record (a student), of its last (a teacher) and by a fresh id
ConcurrentRequests ==
  LET users == Store.Users
      ids == {users[k].base.sourcedId : k \in {1, Len(users)} \cap DOMAIN users}
               \cup {FreshId}
  IN {[path |-> BasePath \o t, headers |-> [Authorization |-> <<"x">>]] :
        t \in {<<c>> : c \in {"users", "teachers", "students"}}
              \cup {<<c, id>> : c \in {"users", "teachers", "students"}, id \in ids}}

Init ==
  /\ pc = "main"
  /\ i = 0
  /\ ds = EmptyDataStore
  /\ Store = EmptyDataStore
  /\ uuidCalls = 0
  /\ clock = 1
  /\ calls = 0
  /\ wpc = [w \in Workers |-> "idle"]
  /\ req = [w \in Workers |-> NoRequest]
  /\ resp = [w \in Workers |-> NoResponse]
  /\ ran = [w \in Workers |-> "none"]

\* main calls NewDataStore (main.go 39); ds := &DataStore{} (datastore.go 130)
CallNewDataStore ==
  /\ pc = "main"
  /\ pc' = "orgs"
  /\ i' = 1
  /\ ds' = EmptyDataStore
  /\ calls' = calls + 1
  /\ UNCHANGED <<Store, uuidCalls, clock, srvVars>>

\* faulty variant: the loop condition is i < limit
LoopLastExclusive(limit) == limit - 1

\* for i := 1; i <= limit; i++: the last value of i the body runs for
LoopLast(limit) == limit

\* the record the loop of a phase appends in iteration k, with the uuid and the
\* time it draws; d is the DataStore as the loop found it (a loop reads only
\* the collections built before it)
Generated(phase, k, id, t, d) ==
  CASE phase = "orgs" -> NewOrg(k, id, t)
    [] phase = "students" -> NewStudent(k, id, t, d.Orgs)
    [] phase = "teachers" -> NewTeacher(k, id, t, d.Orgs)
    [] phase = "sessions" -> NewSession(k, id, t)
    [] phase = "courses" -> NewCourse(k, id, t)
    [] phase = "classes" -> NewClass(k, id, t, d)

\* main runs on inside a generation loop: one iteration, or all that are left
\* (iterations i..n), or the loop's exit
Loop(here, limit, next, field) ==
  /\ pc = here
  /\ IF i <= LoopLast(limit)
       THEN \E n \in {i, LoopLast(limit)} :
              /\ ds' = [ds EXCEPT ![field] = @ \o
                          [m \in 1..(n - i + 1) |->
                             Generated(here, i + m - 1, uuidCalls + m, clock + m - 1, ds)]]
              /\ uuidCalls' = uuidCalls + (n - i + 1)
              /\ clock' = clock + (n - i + 1)
              /\ i' = n + 1
              /\ pc' = pc
       ELSE /\ i' = 1
            /\ pc' = next
            /\ UNCHANGED <<ds, uuidCalls, clock>>
  /\ UNCHANGED <<Store, calls, srvVars>>

GenOrgs == Loop("orgs", NumOrgs, "students", "Orgs")
GenStudents == Loop("students", NumStudents, "teachers", "Users")
GenTeachers == Loop("teachers", NumTeachers, "sessions", "Users")
GenSessions == Loop("sessions", NumSessions, "courses", "AcademicSessions")
GenCourses == Loop("courses", NumCourses, "classes", "Courses")
GenClasses == Loop("classes", NumClasses, "categories", "Classes")

GenCategories ==
  /\ pc = "categories"
  /\ ds' = [ds EXCEPT !.Categories = @ \o
              <<NewCategory(uuidCalls + 1, "Homework", 20),
                NewCategory(uuidCalls + 2, "Exams", 50),
                NewCategory(uuidCalls + 3, "Participation", 30)>>]
  /\ uuidCalls' = uuidCalls + 3
  /\ pc' = "return"
  /\ UNCHANGED <<i, Store, clock, calls, srvVars>>

\* return ds (datastore.go 227); handlers := &APIHandlers{Store: store} (main.go 42)
ReturnStore ==
  /\ pc = "return"
  /\ Store' = ds
  /\ ds' = EmptyDataStore
  /\ pc' = "router"
  /\ UNCHANGED <<i, uuidCalls, clock, calls, srvVars>>

\* faulty variant: the server is started before the data store is generated
ListenEarly ==
  /\ pc \in {"main", "router"}
  /\ pc' = "serving"
  /\ UNCHANGED <<i, ds, Store, uuidCalls, clock, calls, srvVars>>

\* http.ListenAndServe(":5100", r) starts serving (main.go 120)
Listen ==
  /\ pc = "router"
  /\ pc' = "serving"
  /\ UNCHANGED <<i, ds, Store, uuidCalls, clock, calls, srvVars>>

\* ListenAndServe returns an error: log.Fatalf ends the process (main.go 121)
ListenFails ==
  /\ pc = "router"
  /\ pc' = "exit"
  /\ UNCHANGED <<i, ds, Store, uuidCalls, clock, calls, srvVars>>

\* a goroutine serves one request: the authentication middleware, and behind it
\* (next.ServeHTTP) the router and the handler it picks, run to the end
Serve(w, r) ==
  /\ pc = "serving"
  /\ wpc[w] = "idle"
  /\ req' = [req EXCEPT ![w] = r]
  /\ wpc' = [wpc EXCEPT ![w] = "done"]
  /\ IF AuthPasses(r)
       THEN LET rt == Route(r.path)
                out == Run(rt.handler, Store, rt.params)
            IN /\ Store' = out.store
               /\ resp' = [resp EXCEPT ![w] = out.resp]
               /\ ran' = [ran EXCEPT ![w] = rt.handler]
       ELSE /\ resp' = [resp EXCEPT ![w] = Unauthorized]
            /\ UNCHANGED <<Store, ran>>
  /\ UNCHANGED <<pc, i, ds, uuidCalls, clock, calls>>

\* the response is sent and the goroutine takes the next request
Deliver(w) ==
  /\ wpc[w] = "done"
  /\ wpc' = [wpc EXCEPT ![w] = "idle"]
  /\ req' = [req EXCEPT ![w] = NoRequest]
  /\ resp' = [resp EXCEPT ![w] = NoResponse]
  /\ ran' = [ran EXCEPT ![w] = "none"]
  /\ UNCHANGED genVars

Generate ==
  \/ CallNewDataStore
  \/ GenOrgs
  \/ GenStudents
  \/ GenTeachers
  \/ GenSessions
  \/ GenCourses
  \/ GenClasses
  \/ GenCategories
  \/ ReturnStore
  \/ Listen
  \/ ListenFails

\* one request at a time, any request
Next ==
  \/ Generate
  \/ \E r \in Requests : Serve(1, r)
  \/ Deliver(1)

Spec == Init /\ [][Next]_vars

\* requests served concurrently by MaxWorkers goroutines
NextConcurrent ==
  \/ Generate
  \/ \E w \in Workers : \E r \in ConcurrentRequests : Serve(w, r)
  \/ \E w \in Workers : Deliver(w)

SpecConcurrent == Init /\ [][NextConcurrent]_vars

\* ======================= the claims =======================
Done(w) == wpc[w] = "done"

\* the id segment of a /collection/{id} path
IdOf(r) == r.path[Len(BasePath) + 2]

SourcedIds(s) == {s[k].base.sourcedId : k \in 1..Len(s)}

\* what the list route of a handler returns on the present store
Listed(listHandler) == Run(listHandler, Store, <<>>).resp.body.items

\* C1: a request outside /swagger/ whose Authorization header is absent or empty
\* is answered 401 and no handler runs for it; with any non-empty value the
\* request reaches the router and the handler of its route.
C1_AuthBoundary ==
  \A w \in Workers :
    (Done(w) /\ ~(Len(req[w].path) >= 2 /\ req[w].path[1] = "swagger")) =>
      IF req[w].headers["Authorization"] \in {<<>>, <<"">>}
        THEN /\ resp[w].status = 401
             /\ resp[w].contentType = "text/plain; charset=utf-8"
             /\ ran[w] = "none"
        ELSE /\ resp[w].status # 401
             /\ ran[w] = Route(req[w].path).handler

C1_Witness ==
  /\ Done(1)
  /\ req[1].path = BasePath \o <<"users">>
  /\ req[1].headers["Authorization"] = <<"">>
  /\ resp[1].status = 401
  /\ ran[1] = "none"

\* C2: Get-by-id on orgs, users, courses, classes and academicSessions answers
\* 200 with the record of that sourcedId when the id is in the List-all result
\* of the collection, and 404 when it is not.
ListAllOf ==
  [getOrg |-> "getOrgs", getUser |-> "getUsers", getCourse |-> "getCourses",
   getClass |-> "getClasses", getAcademicSession |-> "getAcademicSessions"]

C2_LookupCorrect ==
  \A w \in Workers :
    (Done(w) /\ ran[w] \in DOMAIN ListAllOf) =>
      IF IdOf(req[w]) \in SourcedIds(Listed(ListAllOf[ran[w]]))
        THEN /\ resp[w].status = 200
             /\ resp[w].body.kind = "object"
             /\ resp[w].body.items[1].base.sourcedId = IdOf(req[w])
        ELSE resp[w].status = 404

C2_Witness ==
  /\ Done(1)
  /\ ran[1] = "getUser"
  /\ resp[1].status = 200
  /\ IdOf(req[1]) = Store.Users[1].base.sourcedId

\* C3: a filtered list (/schools, /teachers, /students, /terms, /gradingPeriods)
\* is the List-all result with the records that fail the predicate left out:
\* the j-th returned record is the j-th record of List-all that satisfies it.
FilterOf ==
  [getSchools |-> [all |-> "getOrgs", field |-> "type", value |-> "school"],
   getTeachers |-> [all |-> "getUsers", field |-> "role", value |-> "teacher"],
   getStudents |-> [all |-> "getUsers", field |-> "role", value |-> "student"],
   getTerms |-> [all |-> "getAcademicSessions", field |-> "type", value |-> "term"],
   getGradingPeriods |->
     [all |-> "getAcademicSessions", field |-> "type", value |-> "gradingPeriod"]]

IsFilterOf(out, all, f) ==
  LET sat == {k \in 1..Len(all) : all[k][f.field] = f.value} IN
  /\ Len(out) = Cardinality(sat)
  /\ \A k \in sat : out[Cardinality({m \in sat : m <= k})] = all[k]

C3_FilterConsistent ==
  \A w \in Workers :
    (Done(w) /\ ran[w] \in DOMAIN FilterOf) =>
      /\ resp[w].status = 200
      /\ IsFilterOf(resp[w].body.items, Listed(FilterOf[ran[w]].all), FilterOf[ran[w]])

C3_Witness ==
  /\ Done(1)
  /\ ran[1] = "getTeachers"
  /\ Len(resp[1].body.items) > 1
  /\ Len(resp[1].body.items) < Len(Store.Users)

\* C4: a predicate-qualified Get-by-id answers 200 exactly when the id is the
\* sourcedId of a record of the filtered list; every other id, in the
\* underlying collection or not, gets 404 with the entity's Not-Found message.
QualifiedBy ==
  [getSchool |-> [list |-> "getSchools", message |-> "School not found"],
   getTeacher |-> [list |-> "getTeachers", message |-> "Teacher not found"],
   getStudent |-> [list |-> "getStudents", message |-> "Student not found"],
   getTerm |-> [list |-> "getTerms", message |-> "Term not found"],
   getGradingPeriod |->
     [list |-> "getGradingPeriods", message |-> "Grading Period not found"]]

C4_QualifiedLookup ==
  \A w \in Workers :
    (Done(w) /\ ran[w] \in DOMAIN QualifiedBy) =>
      IF IdOf(req[w]) \in SourcedIds(Listed(QualifiedBy[ran[w]].list))
        THEN /\ resp[w].status = 200
             /\ resp[w].body.kind = "object"
             /\ resp[w].body.items[1].base.sourcedId = IdOf(req[w])
        ELSE /\ resp[w].status = 404
             /\ resp[w].body.key = "error"
             /\ resp[w].body.items = <<QualifiedBy[ran[w]].message>>

C4_Witness ==
  /\ Done(1)
  /\ ran[1] = "getTeacher"
  /\ IdOf(req[1]) = Store.Users[1].base.sourcedId
  /\ Store.Users[1].role = "student"
  /\ resp[1].status = 404

\* C5: once NewDataStore has returned, no step of the server changes the
\* DataStore: every collection keeps its content and order whatever requests
\* are served (answered 200, 404 or 401).
C5_StoreNeverMutated ==
  [][(pc \in {"router", "serving", "exit"}) => (Store' = Store)]_vars

C5_Witness ==
  /\ Done(1)
  /\ ran[1] = "getTeachers"
  /\ resp[1].status = 200
  /\ Len(Store.Users) > Len(resp[1].body.items)
  /\ Store.Users[1].role = "student"

\* C6: the response depends only on the request and the generated dataset: two
\* goroutines that served the same request, whatever was served in between and
\* in whatever order, wrote the same status and the same body.
SameResponse(a, b) ==
  /\ a.status = b.status
  /\ a.contentType = b.contentType
  /\ a.body.key = b.body.key
  /\ a.body.kind = b.body.kind
  /\ a.body.items = b.body.items

C6_SameRequestSameResponse ==
  \A w1, w2 \in Workers :
    (Done(w1) /\ Done(w2) /\ req[w1] = req[w2]) => SameResponse(resp[w1], resp[w2])

C6_Witness ==
  /\ Done(1)
  /\ Done(2)
  /\ req[1] = req[2]
  /\ ran[1] = "getTeachers"
  /\ ran[2] = "getTeachers"
  /\ resp[1].status = 200
  /\ SameResponse(resp[1], resp[2])

\* C7: NewDataStore runs once; requests are served only after it has returned
\* the fully populated DataStore, and it is not run again.
FullyPopulated(d) ==
  /\ Len(d.Orgs) = NumOrgs
  /\ Len(d.Users) = NumStudents + NumTeachers
  /\ Len(d.AcademicSessions) = NumSessions
  /\ Len(d.Courses) = NumCourses
  /\ Len(d.Classes) = NumClasses
  /\ Len(d.Categories) = 3

C7_BuiltOnceBeforeServing ==
  /\ calls <= 1
  /\ (pc = "serving" \/ \E w \in Workers : wpc[w] # "idle") =>
       /\ calls = 1
       /\ pc = "serving"
       /\ ds = EmptyDataStore
       /\ FullyPopulated(Store)

C7_Witness ==
  /\ pc = "serving"
  /\ calls = 1
  /\ Done(1)
  /\ ran[1] = "getClasses"
  /\ Len(resp[1].body.items) = NumClasses

\* C8: the generated dataset has 10 orgs, 1250 users (1000 students followed by
\* 250 teachers), 4 academic sessions, 50 courses, 500 classes, 3 categories and
\* no enrollment, in every state after generation.
C8_Cardinality ==
  pc \in {"router", "serving", "exit"} =>
    /\ Len(Store.Orgs) = 10
    /\ Len(Store.Users) = 1250
    /\ \A k \in 1..Len(Store.Users) :
         Store.Users[k].role = IF k <= 1000 THEN "student" ELSE "teacher"
    /\ Len(Store.AcademicSessions) = 4
    /\ Len(Store.Courses) = 50
    /\ Len(Store.Classes) = 500
    /\ Len(Store.Categories) = 3
    /\ Len(Store.Enrollments) = 0

C8_Witness ==
  /\ pc = "serving"
  /\ Done(1)
  /\ ran[1] = "getUsers"
  /\ Len(resp[1].body.items) = 1250
  /\ resp[1].body.items[1001].role = "teacher"

\* C9: every reference resolves, in the generated dataset and at every step of
\* its generation: a user's org references are sourcedIds of orgs, a class's
\* course, school and term references are sourcedIds of a course, an org and
\* an academic session.
Resolves(d) ==
  LET orgIds == SourcedIds(d.Orgs)
      courseIds == SourcedIds(d.Courses)
      sessionIds == SourcedIds(d.AcademicSessions)
  IN /\ \A j \in 1..Len(d.Users) :
          \A r \in 1..Len(d.Users[j].orgs) : d.Users[j].orgs[r].sourcedId \in orgIds
     /\ \A j \in 1..Len(d.Classes) :
          /\ d.Classes[j].course.sourcedId \in courseIds
          /\ d.Classes[j].school.sourcedId \in orgIds
          /\ \A r \in 1..Len(d.Classes[j].terms) :
               d.Classes[j].terms[r].sourcedId \in sessionIds

C9_ReferencesResolve == Resolves(ds) /\ Resolves(Store)

C9_Witness ==
  /\ pc = "classes"
  /\ Len(ds.Classes) > 0
  /\ Len(ds.Classes) < NumClasses
  /\ Len(ds.Users) = NumStudents + NumTeachers
  /\ ds.Classes[1].school.sourcedId \in SourcedIds(ds.Orgs)

\* C10: the k-th user of its role group (students, then teachers) references
\* exactly one org, the one at 0-indexed position k mod 10; the k-th class
\* references the course at position k mod 50, the school at position k mod 10
\* and exactly one term, the academic session at position k mod 4.
RoundRobin(d) ==
  LET students == Cardinality({j \in 1..Len(d.Users) : d.Users[j].role = "student"})
  IN /\ \A j \in 1..Len(d.Users) :
          LET k == IF d.Users[j].role = "student" THEN j ELSE j - students IN
          /\ Len(d.Users[j].orgs) = 1
          /\ d.Users[j].orgs[1].sourcedId = d.Orgs[(k % 10) + 1].base.sourcedId
     /\ \A k \in 1..Len(d.Classes) :
          /\ d.Classes[k].course.sourcedId = d.Courses[(k % 50) + 1].base.sourcedId
          /\ d.Classes[k].school.sourcedId = d.Orgs[(k % 10) + 1].base.sourcedId
          /\ Len(d.Classes[k].terms) = 1
          /\ d.Classes[k].terms[1].sourcedId
               = d.AcademicSessions[(k % 4) + 1].base.sourcedId

C10_RoundRobin == RoundRobin(ds) /\ RoundRobin(Store)

C10_Witness ==
  /\ pc = "serving"
  /\ Store.Users[10].orgs[1].sourcedId = Store.Orgs[1].base.sourcedId
  /\ Store.Users[1001].orgs[1].sourcedId = Store.Orgs[2].base.sourcedId
  /\ Store.Classes[500].course.sourcedId = Store.Courses[1].base.sourcedId
  /\ Store.Classes[500].terms[1].sourcedId = Store.AcademicSessions[1].base.sourcedId

\* C11: an authorized request to /classes/{id}/categories is answered 200 with
\* the whole global categories collection, 3 items, the same for every id,
\* whether or not the id is the sourcedId of a class; it is never Not-Found.
C11_CategoriesIgnoreClassId ==
  \A w \in Workers :
    (Done(w) /\ Len(req[w].path) = Len(BasePath) + 3
             /\ req[w].path[Len(BasePath) + 1] = "classes"
             /\ req[w].path[Len(BasePath) + 3] = "categories"
             /\ req[w].headers["Authorization"] \notin {<<>>, <<"">>}) =>
      /\ ran[w] = "getCategoriesForClass"
      /\ resp[w].status = 200
      /\ resp[w].body.key = "categories"
      /\ resp[w].body.kind = "array"
      /\ resp[w].body.items = Store.Categories
      /\ Len(resp[w].body.items) = 3
      /\ <<resp[w].body.items[1].title, resp[w].body.items[2].title,
           resp[w].body.items[3].title>> = <<"Homework", "Exams", "Participation">>

C11_Witness ==
  /\ Done(1)
  /\ ran[1] = "getCategoriesForClass"
  /\ IdOf(req[1]) \notin SourcedIds(Store.Classes)
  /\ resp[1].status = 200
  /\ Len(resp[1].body.items) = 3

\* C12: the collections the generator never fills (enrollments, and sessions of
\* type "gradingPeriod") list as a success with an empty list, and every point
\* lookup in them is Not-Found: /gradingPeriods and /enrollments are answered
\* 200 with a JSON array of no items, /gradingPeriods/{id} and
\* /enrollments/{id} are answered 404 for every id.
C12_EmptyListNotError ==
  \A w \in Workers :
    /\ (Done(w) /\ ran[w] \in {"getGradingPeriods", "getEnrollments"}) =>
         /\ resp[w].status = 200
         /\ resp[w].body.kind = "array"
         /\ Len(resp[w].body.items) = 0
    /\ (Done(w) /\ ran[w] \in {"getGradingPeriod", "getEnrollment"}) =>
         resp[w].status = 404

\* what the handlers do write for these routes: 200 for the two lists, whose
\* slice is nil and is encoded as null, and 404 for every point lookup
C12_AsServed ==
  \A w \in Workers :
    /\ (Done(w) /\ ran[w] \in {"getGradingPeriods", "getEnrollments"}) =>
         /\ resp[w].status = 200
         /\ resp[w].body.kind = "null"
         /\ Len(resp[w].body.items) = 0
    /\ (Done(w) /\ ran[w] \in {"getGradingPeriod", "getEnrollment"}) =>
         /\ resp[w].status = 404
         /\ resp[w].body.kind = "string"

C12_Witness ==
  /\ Done(1)
  /\ ran[1] = "getGradingPeriods"
  /\ resp[1].status = 200
  /\ resp[1].body = [key |-> "academicSessions", kind |-> "null", items |-> <<>>]

\* C13: every record of every generated collection (orgs, users, academic
\* sessions, courses, classes and categories) carries the base fields filled in
\* at creation: a sourcedId, the status "active" and a dateLastModified that is
\* a time of the generation run, not the zero time.
BaseFilled(s) ==
  \A k \in 1..Len(s) :
    /\ s[k].base.sourcedId \in 1..uuidCalls
    /\ s[k].base.status = "active"
    /\ s[k].base.dateLastModified # ZeroTime
    /\ s[k].base.dateLastModified < clock

BaseFilledExceptCategories(d) ==
  /\ BaseFilled(d.Orgs) /\ BaseFilled(d.Users) /\ BaseFilled(d.AcademicSessions)
  /\ BaseFilled(d.Courses) /\ BaseFilled(d.Classes)

C13_BaseFieldsFilled ==
  /\ BaseFilledExceptCategories(ds) /\ BaseFilled(ds.Categories)
  /\ BaseFilledExceptCategories(Store) /\ BaseFilled(Store.Categories)

\* what the generator does produce: the base fields are filled in every
\* collection but Categories, whose records get a sourcedId only
SourcedIdOnly(s) ==
  \A k \in 1..Len(s) :
    /\ s[k].base.sourcedId \in 1..uuidCalls
    /\ s[k].base.status = ""
    /\ s[k].base.dateLastModified = ZeroTime

C13_AsGenerated ==
  /\ BaseFilledExceptCategories(ds) /\ SourcedIdOnly(ds.Categories)
  /\ BaseFilledExceptCategories(Store) /\ SourcedIdOnly(Store.Categories)

C13_Witness ==
  /\ pc = "serving"
  /\ Len(Store.Categories) = 3
  /\ Store.Categories[1].base.status = ""
  /\ Store.Categories[1].base.dateLastModified = ZeroTime
  /\ Store.Orgs[1].base.status = "active"
  /\ Store.Classes[NumClasses].base.dateLastModified # ZeroTime

\* C14: the round-robin assignment is uniform in the generated dataset: every
\* org is referenced by exactly 100 students, 25 teachers (125 users) and 50
\* classes, every course by exactly 10 classes, every academic session by
\* exactly 125 classes; no org, course or session is left unreferenced.
UsersAt(d, org, role) ==
  Cardinality({j \in 1..Len(d.Users) :
                 /\ d.Users[j].role = role
                 /\ \E r \in 1..Len(d.Users[j].orgs) :
                      d.Users[j].orgs[r].sourcedId = org})

ClassesAt(d, org) ==
  Cardinality({k \in 1..Len(d.Classes) : d.Classes[k].school.sourcedId = org})

ClassesOf(d, course) ==
  Cardinality({k \in 1..Len(d.Classes) : d.Classes[k].course.sourcedId = course})

ClassesIn(d, session) ==
  Cardinality({k \in 1..Len(d.Classes) :
                 \E r \in 1..Len(d.Classes[k].terms) :
                   d.Classes[k].terms[r].sourcedId = session})

Uniform(d) ==
  /\ \A o \in SourcedIds(d.Orgs) :
       /\ UsersAt(d, o, "student") = 100
       /\ UsersAt(d, o, "teacher") = 25
       /\ UsersAt(d, o, "student") + UsersAt(d, o, "teacher") = 125
       /\ ClassesAt(d, o) = 50
  /\ \A c \in SourcedIds(d.Courses) : ClassesOf(d, c) = 10
  /\ \A t \in SourcedIds(d.AcademicSessions) : ClassesIn(d, t) = 125

C14_UniformAssignment ==
  /\ (Len(ds.Classes) = NumClasses) => Uniform(ds)
  /\ (pc \in {"router", "serving", "exit"}) => Uniform(Store)

C14_Witness ==
  /\ pc = "serving"
  /\ Len(Store.Classes) = NumClasses
  /\ UsersAt(Store, Store.Orgs[NumOrgs].base.sourcedId, "student") = 100
  /\ UsersAt(Store, Store.Orgs[1].base.sourcedId, "teacher") = 25
  /\ ClassesOf(Store, Store.Courses[NumCourses].base.sourcedId) = 10
  /\ ClassesIn(Store, Store.AcademicSessions[1].base.sourcedId) = 125

\* C15: course and school of a class are coupled, because one class index
\* drives both and the org count (10) divides the course count (50): a class
\* whose course is at 0-indexed position c has its school at position c mod 10,
\* so two classes of the same course are at the same school; in the generated
\* dataset each course is offered at exactly one school and each school hosts
\* exactly 5 distinct courses.
SchoolsOf(d, course) ==
  {d.Classes[k].school.sourcedId :
     k \in {j \in 1..Len(d.Classes) : d.Classes[j].course.sourcedId = course}}

CoursesAt(d, org) ==
  {d.Classes[k].course.sourcedId :
     k \in {j \in 1..Len(d.Classes) : d.Classes[j].school.sourcedId = org}}

Coupled(d) ==
  /\ \A k \in 1..Len(d.Classes) : \A c \in 1..Len(d.Courses) :
       (d.Classes[k].course.sourcedId = d.Courses[c].base.sourcedId) =>
         d.Classes[k].school.sourcedId = d.Orgs[((c - 1) % 10) + 1].base.sourcedId
  /\ \A c \in SourcedIds(d.Courses) : Cardinality(SchoolsOf(d, c)) <= 1

OneSchoolPerCourse(d) ==
  /\ \A c \in SourcedIds(d.Courses) : Cardinality(SchoolsOf(d, c)) = 1
  /\ \A o \in SourcedIds(d.Orgs) : Cardinality(CoursesAt(d, o)) = 5

C15_CourseSchoolCoupled ==
  /\ Coupled(ds) /\ Coupled(Store)
  /\ (Len(ds.Classes) = NumClasses) => OneSchoolPerCourse(ds)
  /\ (pc \in {"router", "serving", "exit"}) => OneSchoolPerCourse(Store)

C15_Witness ==
  /\ pc = "serving"
  /\ Store.Classes[13].course.sourcedId = Store.Classes[463].course.sourcedId
  /\ Store.Classes[13].school.sourcedId = Store.Classes[463].school.sourcedId
  /\ Store.Classes[13].course.sourcedId = Store.Courses[14].base.sourcedId
  /\ Store.Classes[13].school.sourcedId = Store.Orgs[4].base.sourcedId
  /\ Cardinality(CoursesAt(Store, Store.Orgs[4].base.sourcedId)) = 5
====
